---- MODULE Spec2Model ----
(***************************************************************************)
(* SlimeVR-Rust firmware: boot sequence of main(), the cooperative task    *)
(* set it registers, the IMU drivers (FakeImu, Mpu6050) and the shared     *)
(* outgoing packet store.                                                  *)
(***************************************************************************)
EXTENDS Integers, Sequences, FiniteSets, TLC

\* ------------------------------------------------------------------ bounds
\* packets each producer creates in a run (also bounds the quat() cycles)
MaxSeq == 2
\* capacity of the bounded outgoing packet store
Capacity == 2
\* ticks the monotonic clock advances in a run
MaxTime == 2

\* ------------------------------------------------------- program constants
SettleDelayMs == 500
UnknownImuCode == 255

\* ------------------------------------------------------------------- state
VARIABLES
    driver,        \* build: which new_imu is compiled in ("stub" | "mpu6050")
    bbq,           \* build: cfg(bbq) diagnostic log capture
    bbqCap,        \* build: which bundle field p.bbq_peripheral() splits off
    netCap,        \* build: the transport network_task writes to
    pc,            \* main's next step
    proc,          \* "Booting" | "Running" | "Halted" (panic)
    panicCause,    \* what panicked, "none" while alive
    bootLog,       \* steps main has executed, in order
    settleMs,      \* milliseconds main has blocked in delay_ms
    PACKETS,       \* StaticCell<Packets>: "empty" | "init"
    EXECUTOR,      \* StaticCell<Executor>: "empty" | "init"
    initAttempts,  \* [cell -> number of StaticCell::init calls]
    bundle,        \* fields still held by main's Peripherals value p
    bbqHandle,     \* the bbq_peripheral local of main ("none" when absent)
    held,          \* [task -> capabilities moved into the task at spawn]
    used,          \* <<task, capability>> pairs a task has exercised
    spawned,       \* tasks registered with the spawner
    polled,        \* tasks whose body has run at least once
    imuPc,         \* imu_task position: "new" | "loop"
    last,          \* Mpu6050.last (Instant, ticks)
    last0,         \* value of Mpu6050.last at construction
    elapsedSum,    \* sum of the elapsed amounts measured by the quat() cycles
    calibrated,    \* whether calibrate_at_rest succeeded
    newInputs,     \* bus outcomes met by Mpu6050::new (configuration, calibration)
    quatCalls,     \* number of quat() calls made
    quatResult,    \* what the last quat() call returned
    busAtCall,     \* bus outcome met by the last quat() call
    now,           \* monotonic clock (Instant::now())
    fresh,         \* sensor holds a sample not yet read
    queue,         \* Packets: queued packets, oldest first
    pending,       \* [producer -> packet waiting to be enqueued]
    nextSeq,       \* [producer -> packets created so far]
    pushResult,    \* [producer -> outcome of its last push]
    sentSeq,       \* [producer -> seq of its packet the network task dequeued last]
    lastSent       \* the packet the network task transmitted last

cfgVars   == <<driver, bbq, bbqCap, netCap>>
bootVars  == <<pc, bootLog, settleMs, PACKETS, EXECUTOR, initAttempts>>
capVars   == <<bundle, bbqHandle, held, spawned>>
imuVars   == <<imuPc, last, last0, elapsedSum, calibrated, newInputs, quatCalls,
               quatResult, busAtCall>>
envVars   == <<now, fresh>>
storeVars == <<queue, pending, nextSeq, pushResult, sentSeq, lastSent>>
fwVars == <<cfgVars, bootVars, capVars, imuVars, envVars, storeVars,
            proc, panicCause, used, polled>>

\* skeletal_model conventions: one call of the rotation builders
VARIABLES
    cvPc,          \* "idle" | "input" | "done"
    cvIn,          \* arguments of the call
    cvOut          \* what the call produced

cvVars == <<cvPc, cvIn, cvOut>>

\* overlay: the networking subsystem, the two watch channels, the overlay loop
VARIABLES
    shutdownRequested,  \* the toplevel has asked its subsystems to shut down
    netPc,              \* networking: "unstarted", "running", "exited"
    cbPc,               \* the update callback: "idle", "data"
    cbUpdate,           \* the update the callback holds
    received,           \* number of updates the callback has been called with
    dataVal,            \* data channel: the value
    dataVer,            \* data channel: the version of the value
    seenVer,            \* data channel: the version the receiver has seen
    settingsVal,        \* settings channel: the value
    ovPc,               \* overlay: "unstarted", "init", "build", "wait",
                        \* "visible", "borrow", "exited_ok", "exited_err", "panicked"
    isSkeletonVisible,  \* the loop's is_skeleton_visible, with the settings it was read from
    skeleton,           \* per bone kind: isometry, length, visibility, render state
    context,            \* the OpenVR context: "none", "live", "shut"
    shutdownCalls,      \* number of context.shutdown() calls
    carriedSettings     \* ids of the updates display settings were parsed from

netVars == <<netPc, cbPc, cbUpdate, received, carriedSettings>>
chanVars == <<dataVal, dataVer, seenVer, settingsVal>>
loopVars == <<ovPc, isSkeletonVisible, skeleton, context, shutdownCalls>>
ovVars == <<shutdownRequested, netVars, chanVars, loopVars>>

vars == <<fwVars, cvVars, ovVars>>

\* ------------------------------------------------------------- vocabulary
Tasks     == {"network_task", "protocol_task", "imu_task", "logger_task"}
Producers == {"protocol_task", "imu_task"}
Caps      == {"i2c", "delay", "uart", "usb_driver"}
Transports == {"uart", "usb_driver"}
Cells     == {"PACKETS", "EXECUTOR"}
BusOutcomes == {"Ok", "Err"}

\* the task set main registers in this build
TaskSet == {"network_task", "protocol_task", "imu_task"}
             \cup (IF bbq THEN {"logger_task"} ELSE {})

\* ------------------------------------------------------------- quaternions
\* Quat::identity()
QuatIdentity == [w |-> 1, i |-> 0, j |-> 0, k |-> 0]

\* cos and sin of a quarter-turn multiple a * pi/2
CosQ(a) == CASE a % 4 = 0 -> 1 [] a % 4 = 1 -> 0 [] a % 4 = 2 -> -1 [] OTHER -> 0
SinQ(a) == CASE a % 4 = 0 -> 0 [] a % 4 = 1 -> 1 [] a % 4 = 2 -> 0 [] OTHER -> -1

\* Quat::from_euler_angles(roll, pitch, yaw), angles given in half-turns
\* (multiples of pi), so that the half angles are quarter-turn multiples
FromEulerAngles(roll, pitch, yaw) ==
    LET sr == SinQ(roll)  cr == CosQ(roll)
        sp == SinQ(pitch) cp == CosQ(pitch)
        sy == SinQ(yaw)   cy == CosQ(yaw)
    IN [w |-> cr * cp * cy + sr * sp * sy,
        i |-> sr * cp * cy - cr * sp * sy,
        j |-> cr * sp * cy + sr * cp * sy,
        k |-> cr * cp * sy - sr * sp * cy]

\* a quaternion whose four components are NaN
QuatNaN == [nan |-> TRUE]
IsNaNQuat(q) == "nan" \in DOMAIN q

\* the EulerAngles the DCM filter update returns: finite angles (in half-turns)
\* or a triple with a non-finite angle
EulerAngles(roll, pitch, yaw) ==
    [finite |-> TRUE, roll |-> roll, pitch |-> pitch, yaw |-> yaw]
NonFiniteAngles == [finite |-> FALSE, roll |-> 0, pitch |-> 0, yaw |-> 0]

\* Quat::from_euler_angles(euler.roll, euler.pitch, euler.yaw) on a filter
\* output: the sine and cosine of a non-finite angle are NaN, and every
\* component of the quaternion has a factor from each of the three angles
QuatFromEuler(euler) ==
    IF euler.finite THEN FromEulerAngles(euler.roll, euler.pitch, euler.yaw)
    ELSE QuatNaN

\* what dcm.update hands back to Mpu6050::quat.  The filter is not part of the
\* driver and the driver puts no condition on its output, so the output is
\* an input of quat(): a level triple, one with roll and pitch turned, and a
\* non-finite one.
EulerOutputs == {EulerAngles(0, 0, 0), EulerAngles(1, 1, 0), NonFiniteAngles}

\* nb::Result<Quat, Error> values
NoResult   == [kind |-> "none", q |-> QuatIdentity]
OkQuat(q)  == [kind |-> "Ok", q |-> q]

\* ------------------------------------------------------------- IMU drivers
\* FakeImu::IMU_TYPE / Mpu6050::IMU_TYPE
ImuType(d) == IF d = "stub" THEN [variant |-> "Unknown", code |-> UnknownImuCode]
              ELSE [variant |-> "Mpu6050", code |-> 0]

\* a slip in the stub: only the first call yields a sample
FakeImuQuat_FirstOnly ==
    IF quatCalls >= 1 THEN [kind |-> "WouldBlock", q |-> QuatIdentity]
    ELSE OkQuat(QuatIdentity)

\* FakeImu::quat
FakeImuQuat == OkQuat(QuatIdentity)

\* a slip in the driver: the elapsed amount is measured but self.last is not
\* advanced by it
Mpu6050Quat_NoAdvance(selfLast, clock, bus, euler) ==
    IF bus = "Err"
    THEN [outcome |-> "panic", result |-> NoResult, last |-> selfLast, elapsed |-> 0]
    ELSE LET elapsed == clock - selfLast
         IN [outcome |-> "return",
             result  |-> OkQuat(QuatFromEuler(euler)),
             last    |-> selfLast,
             elapsed |-> elapsed]

\* Mpu6050::quat: self.mpu.all().unwrap(), elapsed, self.last += elapsed,
\* dcm.update, Ok(from_euler_angles(..)) with nothing between the two.  bus is
\* the outcome of the register read, euler the EulerAngles the filter update
\* yields.
Mpu6050Quat(selfLast, clock, bus, euler) ==
    IF bus = "Err"
    THEN [outcome |-> "panic", result |-> NoResult, last |-> selfLast, elapsed |-> 0]
    ELSE LET elapsed == clock - selfLast
         IN [outcome |-> "return",
             result  |-> OkQuat(QuatFromEuler(euler)),
             last    |-> selfLast + elapsed,
             elapsed |-> elapsed]

\* a slip in the driver: a failed calibration fails the construction
Mpu6050New_CalibrationFatal(clock, config, calibration) ==
    IF config = "Err" \/ calibration = "Err"
    THEN [outcome |-> "panic", last |-> 0, calibrated |-> FALSE]
    ELSE [outcome |-> "return", last |-> clock, calibrated |-> TRUE]

\* a slip in the driver: a failed register configuration is ignored
Mpu6050New_ConfigIgnored(clock, config, calibration) ==
    [outcome |-> "return", last |-> clock, calibrated |-> (calibration = "Ok")]

\* no Mpu6050::new call has been made
NotConstructed == [config |-> "none", calibration |-> "none"]

\* Mpu6050::new followed by new_imu's unwrap: Mpu9250::imu(..).unwrap(),
\* let _ = calibrate_at_rest, last: Instant::now()
Mpu6050New(clock, config, calibration) ==
    IF config = "Err"
    THEN [outcome |-> "panic", last |-> 0, calibrated |-> FALSE]
    ELSE [outcome |-> "return", last |-> clock, calibrated |-> (calibration = "Ok")]

\* ------------------------------------------------------------ packet store
NoPacket == [producer |-> "none", seq |-> 0, tag |-> ImuType("stub"), q |-> QuatIdentity]
Packet(p, n, tag, q) == [producer |-> p, seq |-> n, tag |-> tag, q |-> q]

\* a store that puts the newest packet first
Push_Front(store, pkt) ==
    IF Len(store) >= Capacity
    THEN [result |-> "full", store |-> store]
    ELSE [result |-> "success", store |-> <<pkt>> \o store]

\* a store that overwrites its oldest packet when it is full
Push_Overwrite(store, pkt) ==
    IF Len(store) >= Capacity
    THEN [result |-> "success", store |-> Append(Tail(store), pkt)]
    ELSE [result |-> "success", store |-> Append(store, pkt)]

\* Packets::push(packet) -> success | full
Push(store, pkt) ==
    IF Len(store) >= Capacity
    THEN [result |-> "full", store |-> store]
    ELSE [result |-> "success", store |-> Append(store, pkt)]

\* ----------------------------------------------------------------- helpers
\* a panic halts the process
Panic(cause) == proc' = "Halted" /\ panicCause' = cause

\* StaticCell::init: panics when the cell is already initialised
StaticCellInit(cell, state) ==
    IF state = "empty" THEN [outcome |-> "return", state |-> "init"]
    ELSE [outcome |-> "panic", state |-> state]

\* a slip in main: the packet store is constructed after the first spawn
MainOrder_StoreLate ==
    <<"defmt_bbq_init", "globals_setup", "get_peripherals", "bbq_peripheral",
      "delay_ms", "executor_init", "spawn_network", "packets_init",
      "spawn_protocol", "spawn_imu", "spawn_logger", "executor_poll">>

\* the order of main's statements
MainOrder ==
    <<"defmt_bbq_init", "globals_setup", "get_peripherals", "bbq_peripheral",
      "delay_ms", "packets_init", "executor_init", "spawn_network",
      "spawn_protocol", "spawn_imu", "spawn_logger", "executor_poll">>

\* statements compiled in only under cfg(bbq)
BbqOnly == {"defmt_bbq_init", "spawn_logger"}

IndexOf(s) == CHOOSE n \in 1..Len(MainOrder) : MainOrder[n] = s

\* the statement that follows statement s in this build
Following(s) ==
    LET later == {n \in (IndexOf(s) + 1)..Len(MainOrder) :
                     bbq \/ MainOrder[n] \notin BbqOnly}
    IN IF later = {} THEN "polling"
       ELSE MainOrder[CHOOSE n \in later : \A m \in later : n <= m]

\* a slip in main: the store's initialisation is reached a second time
NextPc_Reinit(s) ==
    IF s = "packets_init" /\ initAttempts["PACKETS"] = 0 THEN "packets_init"
    ELSE Following(s)

\* main is straight-line code: each statement is followed by the next one
NextPc(s) == Following(s)

FirstPc(b) == IF b THEN "defmt_bbq_init" ELSE "globals_setup"

\* main executes statement s
MainStep(s) ==
    /\ proc = "Booting"
    /\ pc = s
    /\ bootLog' = Append(bootLog, s)
    /\ pc' = NextPc(s)

\* the executor polls a task only from its poll loop, after the init closure
Runnable(t) == proc = "Running" /\ t \in spawned

\* ------------------------------------------------------------------- Init
\* the conventions component is not exercised
CvIdle == cvPc = "idle" /\ cvIn = <<>> /\ cvOut = <<>>

\* ------------------------------------------------------ overlay vocabulary
\* largest number of updates the server sends
MaxUpdates == 2
\* largest number of bones in an update, and of pub-sub messages in it
MaxBones == 1
MaxMsgs == 1

\* BoneKind, two of its kinds
BoneKinds == {"Head", "Chest"}
\* BodyPart values of a bone; "NONE" has no BoneKind
BodyParts == {"HEAD", "CHEST", "NONE"}

\* BoneKind::try_from(part).ok()
BoneKindOf(part) ==
    CASE part = "HEAD" -> "Head" [] part = "CHEST" -> "Chest" [] OTHER -> "none"

\* a bone of the data feed: body_part(), head_position_g(), rotation_g()
Bone(part, pos, rot) == [part |-> part, pos |-> pos, rot |-> rot]
\* the bones updates are made of: a complete bone of each body part, and a bone
\* without a position and one without a rotation
Bones ==
    {Bone(p, TRUE, TRUE) : p \in BodyParts}
    \cup {Bone("HEAD", FALSE, TRUE), Bone("CHEST", TRUE, FALSE)}

\* sequences over S of length at most n
RECURSIVE SeqsUpTo(_, _)
SeqsUpTo(S, n) ==
    IF n = 0 THEN {<<>>}
    ELSE LET shorter == SeqsUpTo(S, n - 1)
         IN shorter \cup {Append(q, x) : q \in {r \in shorter : Len(r) = n - 1}, x \in S}

\* what the loop reads of an update: data_feed_msgs(), its first message,
\* message_as_data_feed_update() and bones()
DataFeeds ==
    {[feed |-> f, bones |-> <<>>] : f \in {"no_msgs", "empty_msgs", "other_msg", "no_bones"}}
    \cup {[feed |-> "bones", bones |-> b] : b \in SeqsUpTo(Bones, MaxBones)}

\* a pub-sub message: one get_display_settings skips, or overlay display
\* settings with is_visible true or false
PubSubMsgs == {"skipped", "show", "hide"}
\* pub_sub_msgs(): absent, or a list
PubSubs ==
    {[present |-> FALSE, msgs |-> <<>>]}
    \cup {[present |-> TRUE, msgs |-> m] : m \in SeqsUpTo(PubSubMsgs, MaxMsgs)}

\* watch::channel(None)
NoUpdate == [id |-> 0, feed |-> "None", bones |-> <<>>]
\* Some(update)
SomeUpdate(id, d) == [id |-> id, feed |-> d.feed, bones |-> d.bones]

\* no DisplaySettings; DisplaySettings with is_visible = v, parsed from update
\* id (0: DisplaySettings::default())
NoSettings == [parsed |-> FALSE, is_visible |-> FALSE, from |-> 0]
Settings(v, id) == [parsed |-> TRUE, is_visible |-> v, from |-> id]

\* a bone of the skeleton as built
DefaultBone ==
    [iso |-> 0, length |-> 0, visible |-> FALSE, rendered |-> [iso |-> 0, visible |-> FALSE]]

\* the overlay is not started
OvIdle ==
    /\ shutdownRequested = FALSE
    /\ netPc = "unstarted"
    /\ cbPc = "idle"
    /\ cbUpdate = NoUpdate
    /\ received = 0
    /\ carriedSettings = {}
    /\ dataVal = NoUpdate
    /\ dataVer = 0
    /\ seenVer = 0
    /\ settingsVal = NoSettings
    /\ ovPc = "unstarted"
    /\ isSkeletonVisible = NoSettings
    /\ skeleton = [k \in BoneKinds |-> DefaultBone]
    /\ context = "none"
    /\ shutdownCalls = 0

\* the firmware at reset
FwInit ==
    /\ driver \in {"stub", "mpu6050"}
    /\ bbq \in BOOLEAN
    /\ bbqCap \in (IF bbq THEN Transports ELSE {"none"})
    /\ netCap \in Transports \ {bbqCap}
    /\ pc = FirstPc(bbq)
    /\ proc = "Booting"
    /\ panicCause = "none"
    /\ bootLog = <<>>
    /\ settleMs = 0
    /\ PACKETS = "empty"
    /\ EXECUTOR = "empty"
    /\ initAttempts = [c \in Cells |-> 0]
    /\ bundle = {}
    /\ bbqHandle = "none"
    /\ held = [t \in Tasks |-> {}]
    /\ used = {}
    /\ spawned = {}
    /\ polled = {}
    /\ imuPc = "new"
    /\ last = 0
    /\ last0 = 0
    /\ elapsedSum = 0
    /\ calibrated = FALSE
    /\ newInputs = NotConstructed
    /\ quatCalls = 0
    /\ quatResult = NoResult
    /\ busAtCall = "none"
    /\ now = 0
    /\ fresh = FALSE
    /\ queue = <<>>
    /\ pending = [p \in Producers |-> NoPacket]
    /\ nextSeq = [p \in Producers |-> 0]
    /\ pushResult = [p \in Producers |-> "none"]
    /\ sentSeq = [p \in Producers |-> 0]
    /\ lastSent = NoPacket

Init == FwInit /\ CvIdle /\ OvIdle

\* ------------------------------------------------------------ main (boot)
\* let bbq = defmt_bbq::init().unwrap()
DefmtBbqInit ==
    /\ MainStep("defmt_bbq_init")
    /\ UNCHANGED <<cvVars, ovVars, cfgVars, settleMs, PACKETS, EXECUTOR, initAttempts, capVars,
                   imuVars, envVars, storeVars, proc, panicCause, used, polled>>

\* self::globals::setup()
GlobalsSetup ==
    /\ MainStep("globals_setup")
    /\ UNCHANGED <<cvVars, ovVars, cfgVars, settleMs, PACKETS, EXECUTOR, initAttempts, capVars,
                   imuVars, envVars, storeVars, proc, panicCause, used, polled>>

\* let p = get_peripherals(): i2c, delay, uart, usb_driver bundled
GetPeripherals ==
    /\ MainStep("get_peripherals")
    /\ bundle' = {"i2c", "delay", "uart", "usb_driver"}
    /\ UNCHANGED <<cvVars, ovVars, cfgVars, settleMs, PACKETS, EXECUTOR, initAttempts, bbqHandle,
                   held, spawned, imuVars, envVars, storeVars, proc, panicCause,
                   used, polled>>

\* let (bbq_peripheral, mut p) = p.bbq_peripheral().  main.rs fixes only the
\* call and its two results; Peripherals::bbq_peripheral is defined outside
\* it.  The log-capture build adds the logging task's capability requirement:
\* here the requirement is one of the two transports (bbqCap, either one),
\* taken out of p.
BbqPeripheral ==
    /\ MainStep("bbq_peripheral")
    /\ IF bbq /\ bbqCap \in bundle
       THEN bundle' = bundle \ {bbqCap} /\ bbqHandle' = bbqCap
       ELSE UNCHANGED <<bundle, bbqHandle>>
    /\ UNCHANGED <<cvVars, ovVars, cfgVars, settleMs, PACKETS, EXECUTOR, initAttempts, held,
                   spawned, imuVars, envVars, storeVars, proc, panicCause, used,
                   polled>>

\* p.delay.delay_ms(500u32)
DelayMs ==
    /\ MainStep("delay_ms")
    /\ settleMs' = settleMs + SettleDelayMs
    /\ UNCHANGED <<cvVars, ovVars, cfgVars, PACKETS, EXECUTOR, initAttempts, capVars, imuVars,
                   envVars, storeVars, proc, panicCause, used, polled>>

\* let packets = PACKETS.init(Packets::new())
PacketsInit ==
    /\ MainStep("packets_init")
    /\ initAttempts' = [initAttempts EXCEPT !["PACKETS"] = @ + 1]
    /\ LET r == StaticCellInit("PACKETS", PACKETS)
       IN IF r.outcome = "panic"
          THEN Panic("static_cell") /\ UNCHANGED <<PACKETS, queue>>
          ELSE PACKETS' = r.state /\ queue' = <<>> /\ UNCHANGED <<proc, panicCause>>
    /\ UNCHANGED <<cvVars, ovVars, cfgVars, settleMs, EXECUTOR, capVars, imuVars, envVars,
                   pending, nextSeq, pushResult, sentSeq, lastSent, used, polled>>

\* EXECUTOR.init(Executor::new())
ExecutorInit ==
    /\ MainStep("executor_init")
    /\ initAttempts' = [initAttempts EXCEPT !["EXECUTOR"] = @ + 1]
    /\ LET r == StaticCellInit("EXECUTOR", EXECUTOR)
       IN IF r.outcome = "panic"
          THEN Panic("static_cell") /\ UNCHANGED EXECUTOR
          ELSE EXECUTOR' = r.state /\ UNCHANGED <<proc, panicCause>>
    /\ UNCHANGED <<cvVars, ovVars, cfgVars, settleMs, PACKETS, capVars, imuVars, envVars,
                   storeVars, used, polled>>

\* s.spawn(task(args)).unwrap(): the arguments move into the task; spawning a
\* task that is already spawned fails and the unwrap panics
Spawn(t, caps) ==
    IF t \in spawned
    THEN Panic("spawn") /\ UNCHANGED <<spawned, held, bundle, bbqHandle>>
    ELSE /\ spawned' = spawned \cup {t}
         /\ held' = [held EXCEPT ![t] = caps]
         /\ bundle' = bundle \ caps
         /\ bbqHandle' = IF bbqHandle \in caps THEN "none" ELSE bbqHandle
         /\ UNCHANGED <<proc, panicCause>>

\* s.spawn(network_task(packets)).unwrap()
SpawnNetwork ==
    /\ MainStep("spawn_network")
    /\ Spawn("network_task", {})
    /\ UNCHANGED <<cvVars, ovVars, cfgVars, settleMs, PACKETS, EXECUTOR, initAttempts, imuVars,
                   envVars, storeVars, used, polled>>

\* s.spawn(protocol_task(packets)).unwrap()
SpawnProtocol ==
    /\ MainStep("spawn_protocol")
    /\ Spawn("protocol_task", {})
    /\ UNCHANGED <<cvVars, ovVars, cfgVars, settleMs, PACKETS, EXECUTOR, initAttempts, imuVars,
                   envVars, storeVars, used, polled>>

\* s.spawn(imu_task(packets, p.i2c, p.delay)).unwrap()
SpawnImu ==
    /\ MainStep("spawn_imu")
    /\ Spawn("imu_task", {"i2c", "delay"} \cap bundle)
    /\ UNCHANGED <<cvVars, ovVars, cfgVars, settleMs, PACKETS, EXECUTOR, initAttempts, imuVars,
                   envVars, storeVars, used, polled>>

\* #[cfg(bbq)] s.spawn(logger_task(bbq, bbq_peripheral)).unwrap()
SpawnLogger ==
    /\ MainStep("spawn_logger")
    /\ Spawn("logger_task", {bbqHandle} \cap Caps)
    /\ UNCHANGED <<cvVars, ovVars, cfgVars, settleMs, PACKETS, EXECUTOR, initAttempts, imuVars,
                   envVars, storeVars, used, polled>>

\* Executor::run: the init closure has returned, the poll loop starts
ExecutorPoll ==
    /\ MainStep("executor_poll")
    /\ proc' = "Running"
    /\ UNCHANGED <<cvVars, ovVars, cfgVars, settleMs, PACKETS, EXECUTOR, initAttempts, capVars,
                   imuVars, envVars, storeVars, panicCause, used, polled>>

\* ------------------------------------------------------------------ tasks
\* what imu_task does with the three-way result of quat()
ImuTaskOn(kind) ==
    CASE kind = "Ok" -> "enqueue"
      [] kind = "WouldBlock" -> "yield"
      [] OTHER -> "yield"

\* a producer attempts packets.push(pkt); on full it keeps pkt and yields
TryPush(p, pkt) ==
    LET r == Push(queue, pkt)
    IN /\ queue' = r.store
       /\ pushResult' = [pushResult EXCEPT ![p] = r.result]
       /\ pending' = [pending EXCEPT ![p] = IF r.result = "full" THEN pkt ELSE NoPacket]

\* a producer that met a full store retries the push of the packet it kept
ProducerRetry(p) ==
    /\ Runnable(p)
    /\ pending[p] /= NoPacket
    /\ TryPush(p, pending[p])
    /\ polled' = polled \cup {p}
    /\ UNCHANGED <<cvVars, ovVars, cfgVars, bootVars, capVars, imuVars, envVars, nextSeq, sentSeq, lastSent,
                   proc, panicCause, used>>

\* network_task: dequeue the oldest packet and write its framed bytes out on
\* the serial/USB transport
NetworkTask ==
    /\ Runnable("network_task")
    /\ queue /= <<>>
    /\ lastSent' = Head(queue)
    /\ sentSeq' = [sentSeq EXCEPT ![Head(queue).producer] = Head(queue).seq]
    /\ queue' = Tail(queue)
    /\ polled' = polled \cup {"network_task"}
    /\ used' = used \cup {<<"network_task", netCap>>}
    /\ UNCHANGED <<cvVars, ovVars, cfgVars, bootVars, capVars, imuVars, envVars, pending, nextSeq,
                   pushResult, proc, panicCause>>

\* protocol_task: frame a protocol packet and enqueue it
ProtocolTask ==
    /\ Runnable("protocol_task")
    /\ pending["protocol_task"] = NoPacket
    /\ nextSeq["protocol_task"] < MaxSeq
    /\ nextSeq' = [nextSeq EXCEPT !["protocol_task"] = @ + 1]
    /\ TryPush("protocol_task",
               Packet("protocol_task", nextSeq["protocol_task"] + 1,
                      ImuType(driver), QuatIdentity))
    /\ polled' = polled \cup {"protocol_task"}
    /\ UNCHANGED <<cvVars, ovVars, cfgVars, bootVars, capVars, imuVars, envVars, sentSeq, lastSent, proc,
                   panicCause, used>>

ProtocolRetry == ProducerRetry("protocol_task")

\* imu_task, first poll: let mut imu = new_imu(i2c, &mut delay)
ImuTaskNew ==
    /\ Runnable("imu_task")
    /\ imuPc = "new"
    /\ polled' = polled \cup {"imu_task"}
    /\ IF driver = "stub"
       THEN /\ imuPc' = "loop"
            /\ UNCHANGED <<last, last0, calibrated, newInputs, proc, panicCause, used>>
       ELSE \E config \in BusOutcomes, calibration \in BusOutcomes :
              LET r == Mpu6050New(now, config, calibration)
              IN /\ used' = used \cup {<<"imu_task", "i2c">>, <<"imu_task", "delay">>}
                 /\ newInputs' = [config |-> config, calibration |-> calibration]
                 /\ IF r.outcome = "panic"
                    THEN Panic("mpu_init") /\ UNCHANGED <<imuPc, last, last0, calibrated>>
                    ELSE /\ imuPc' = "loop"
                         /\ last' = r.last
                         /\ last0' = r.last
                         /\ calibrated' = r.calibrated
                         /\ UNCHANGED <<proc, panicCause>>
    /\ UNCHANGED <<cvVars, ovVars, cfgVars, bootVars, capVars, elapsedSum, quatCalls, quatResult,
                   busAtCall, envVars, storeVars>>

\* imu_task, one cycle of its loop: imu.quat(), then enqueue or yield
ImuTaskCycle ==
    /\ Runnable("imu_task")
    /\ imuPc = "loop"
    /\ pending["imu_task"] = NoPacket
    /\ nextSeq["imu_task"] < MaxSeq
    /\ polled' = polled \cup {"imu_task"}
    /\ quatCalls' = quatCalls + 1
    /\ \E bus \in (IF driver = "stub" THEN {"none"} ELSE BusOutcomes),
          euler \in (IF driver = "stub" THEN {EulerAngles(0, 0, 0)} ELSE EulerOutputs) :
         LET r == IF driver = "stub"
                  THEN [outcome |-> "return", result |-> FakeImuQuat,
                        last |-> last, elapsed |-> 0]
                  ELSE Mpu6050Quat(last, now, bus, euler)
         IN /\ busAtCall' = bus
            /\ IF driver = "stub"
               THEN UNCHANGED <<used, fresh>>
               ELSE used' = used \cup {<<"imu_task", "i2c">>}
                    /\ fresh' = (fresh /\ bus = "Err")
            /\ IF r.outcome = "panic"
               THEN /\ Panic("mpu_read")
                    /\ UNCHANGED <<quatResult, last, elapsedSum, storeVars>>
               ELSE /\ quatResult' = r.result
                    /\ last' = r.last
                    /\ elapsedSum' = elapsedSum + r.elapsed
                    /\ UNCHANGED <<proc, panicCause, sentSeq, lastSent>>
                    /\ IF ImuTaskOn(r.result.kind) = "enqueue"
                       THEN /\ nextSeq' = [nextSeq EXCEPT !["imu_task"] = @ + 1]
                            /\ TryPush("imu_task",
                                       Packet("imu_task", nextSeq["imu_task"] + 1,
                                              ImuType(driver), r.result.q))
                       ELSE UNCHANGED <<queue, pending, nextSeq, pushResult>>
    /\ UNCHANGED <<cvVars, ovVars, cfgVars, bootVars, capVars, imuPc, last0, calibrated, newInputs, now>>

ImuRetry == ProducerRetry("imu_task")

\* logger_task(bbq, bbq_peripheral): main.rs forwards both arguments to
\* bbq_logger's task, defined outside it; the task drains the captured log
\* through the peripheral it was given
LoggerTask ==
    /\ Runnable("logger_task")
    /\ "logger_task" \notin polled
    /\ polled' = polled \cup {"logger_task"}
    /\ used' = used \cup {<<"logger_task", c>> : c \in held["logger_task"]}
    /\ UNCHANGED <<cvVars, ovVars, cfgVars, bootVars, capVars, imuVars, envVars, storeVars, proc,
                   panicCause>>

\* ------------------------------------------------------------ environment
\* the monotonic clock advances (only the Mpu6050 driver reads it)
Tick ==
    /\ proc /= "Halted"
    /\ driver = "mpu6050"
    /\ now < MaxTime
    /\ now' = now + 1
    /\ UNCHANGED <<cvVars, ovVars, cfgVars, bootVars, capVars, imuVars, fresh, storeVars, proc,
                   panicCause, used, polled>>

\* the sensor latches a new sample (the stub build talks to no sensor)
SensorSample ==
    /\ proc /= "Halted"
    /\ driver = "mpu6050"
    /\ ~fresh
    /\ fresh' = TRUE
    /\ UNCHANGED <<cvVars, ovVars, cfgVars, bootVars, capVars, imuVars, now, storeVars, proc,
                   panicCause, used, polled>>

\* ------------------------------------------------------------------- spec
Next ==
    \/ DefmtBbqInit \/ GlobalsSetup \/ GetPeripherals \/ BbqPeripheral
    \/ DelayMs \/ PacketsInit \/ ExecutorInit
    \/ SpawnNetwork \/ SpawnProtocol \/ SpawnImu \/ SpawnLogger \/ ExecutorPoll
    \/ NetworkTask \/ ProtocolTask \/ ProtocolRetry
    \/ ImuTaskNew \/ ImuTaskCycle \/ ImuRetry \/ LoggerTask
    \/ Tick \/ SensorSample

Spec == Init /\ [][Next]_vars

\* ----------------------------------------------------------------- claims
Range(f) == {f[x] : x \in DOMAIN f}
IsPrefix(a, b) == Len(a) <= Len(b) /\ \A n \in 1..Len(a) : a[n] = b[n]

\* the boot steps in the order the boot sequence states them
StatedBootOrder ==
    <<"globals_setup", "get_peripherals", "delay_ms", "packets_init",
      "executor_init", "spawn_network", "spawn_protocol", "spawn_imu">>
IsStatedStep(s) == s \in Range(StatedBootOrder)

\* C1: boot runs global setup, peripheral provisioning, the settle delay, the
\* construction of the packet store, the construction of the scheduler and the
\* registration of the network, protocol and sensor tasks in that order, each
\* exactly once; a task is spawned only after provisioning and with the store
\* in place, and a task body runs only once every task of the set is registered.
C1_BootOrder ==
    /\ IsPrefix(SelectSeq(bootLog, IsStatedStep), StatedBootOrder)
    /\ spawned /= {} =>
         /\ "get_peripherals" \in Range(bootLog)
         /\ bundle \cup UNION Range(held) /= {}
         /\ PACKETS = "init"
         /\ settleMs = SettleDelayMs
    /\ polled /= {} =>
         /\ {"network_task", "protocol_task", "imu_task"} \subseteq spawned
         /\ TaskSet \subseteq spawned
    /\ proc = "Running" => SelectSeq(bootLog, IsStatedStep) = StatedBootOrder

\* every task of the set has run its body after a complete boot
C1_Witness ==
    /\ proc = "Running"
    /\ polled = TaskSet
    /\ Len(bootLog) >= Len(StatedBootOrder)

\* C2: the packet store cell and the scheduler cell are each initialised at most
\* once, a second initialisation is never attempted, and a running process has
\* exactly one store and one scheduler.
C2_InitOnce ==
    /\ \A c \in Cells : initAttempts[c] <= 1
    /\ (PACKETS = "init") <=> (initAttempts["PACKETS"] = 1)
    /\ (EXECUTOR = "init") <=> (initAttempts["EXECUTOR"] = 1)
    /\ panicCause /= "static_cell"
    /\ proc = "Running" => (PACKETS = "init" /\ EXECUTOR = "init")

\* both cells hold their value and the tasks are being polled
C2_Witness ==
    /\ proc = "Running"
    /\ initAttempts = [c \in Cells |-> 1]
    /\ polled /= {}

\* C3: once the process is Running it stays Running; in particular no outcome
\* of the sensor task's quat() cycle halts the process.
C3_RunningStaysRunning ==
    [][(proc = "Running" /\ imuPc = "loop") => proc' = "Running"]_vars

\* C4: a bus read failure met by quat() of the real driver is returned to the
\* calling task as an Err value, and the task lives on to retry.
C4_BusFailureReturned ==
    (driver = "mpu6050" /\ busAtCall = "Err") =>
        (quatResult.kind = "Err" /\ proc = "Running")

\* C5: quat() of the real driver returns would-block, neither a sample nor an
\* error, whenever the sensor held no new data when it was called.
C5_WouldBlockWithoutData ==
    [][(driver = "mpu6050" /\ quatCalls' /= quatCalls /\ busAtCall' = "Ok" /\ ~fresh)
          => quatResult'.kind = "WouldBlock"]_vars

\* C6: every quat() call on the stub driver returns the identity quaternion as a
\* success value, whatever the number of calls made before it.
C6_StubIdentity ==
    (driver = "stub" /\ quatCalls > 0) =>
        /\ quatResult.kind = "Ok"
        /\ quatResult.q = [w |-> 1, i |-> 0, j |-> 0, k |-> 0]
        /\ panicCause = "none"

\* the stub has been called more than once
C6_Witness == driver = "stub" /\ quatCalls >= 2 /\ quatResult.kind = "Ok"

\* seq numbers of producer p's packets in the store, oldest first
QueuedSeqs(p) ==
    LET FromP(x) == x.producer = p
        own == SelectSeq(queue, FromP)
    IN [n \in 1..Len(own) |-> own[n].seq]

\* C7: for each producer, the packets it created are dequeued in the order it
\* enqueued them: what the consumer has taken is a prefix 1..k of the producer's
\* sequence, the store holds the next ones in order, and the packet the producer
\* still waits to enqueue is the newest, under every interleaving of the producers.
C7_ProducerFifo ==
    \A p \in Producers :
        /\ \A n \in 1..Len(QueuedSeqs(p)) : QueuedSeqs(p)[n] = sentSeq[p] + n
        /\ pending[p] /= NoPacket =>
               pending[p].seq = sentSeq[p] + Len(QueuedSeqs(p)) + 1
        /\ lastSent.producer = p => lastSent.seq = sentSeq[p]

\* both producers have had a packet delivered and both have one queued
C7_Witness ==
    /\ \A p \in Producers : sentSeq[p] >= 1
    /\ Len(queue) >= 2
    /\ \E m, n \in 1..Len(queue) : queue[m].producer /= queue[n].producer

\* C8 (state part): a producer whose push met a full store keeps the refused
\* packet for its retry, every packet created is delivered, queued or kept, and
\* a full store blocks neither the consumer nor the producer's retry.
C8_NoLoss ==
    \A p \in Producers :
        /\ pushResult[p] = "full" =>
               (pending[p] /= NoPacket /\ pending[p].seq = nextSeq[p])
        /\ nextSeq[p] = sentSeq[p] + Len(QueuedSeqs(p))
                          + (IF pending[p] = NoPacket THEN 0 ELSE 1)
        /\ (proc = "Running" /\ Len(queue) >= Capacity) => ENABLED NetworkTask
        /\ (proc = "Running" /\ pending[p] /= NoPacket) => ENABLED ProducerRetry(p)

\* C8 (step part): while the store is full, the only change to it is the
\* consumer's dequeue, and a producer that creates a packet then gets the full
\* signal and keeps that packet.
C8_FullStep ==
    Len(queue) >= Capacity =>
        /\ queue' = queue \/ queue' = Tail(queue)
        /\ \A p \in Producers :
               nextSeq'[p] /= nextSeq[p] =>
                   /\ pushResult'[p] = "full"
                   /\ pending'[p].seq = nextSeq'[p]
                   /\ queue' = queue

\* C8: an enqueue against a full store returns the full signal, leaves the
\* queued packets and their order as they were and drops nothing: the producer
\* keeps the packet and retries, and the scheduler is not blocked by a full store.
C8_FullBackpressure == []C8_NoLoss /\ [][C8_FullStep]_vars

\* a producer was refused by a full store and holds its packet
C8_Witness ==
    \E p \in Producers :
        /\ pushResult[p] = "full"
        /\ Len(queue) = Capacity
        /\ pending[p] /= NoPacket

\* tasks holding capability c
Owners(c) == {t \in Tasks : c \in held[t]}

\* C9: once running, every field of the bundle has exactly one owning task,
\* the sensor task owns the bus and the delay, the network task owns the
\* serial/USB transport, and a task uses only a field it owns.
C9_EveryFieldOwned ==
    proc = "Running" =>
        /\ \A c \in Caps : Cardinality(Owners(c)) = 1
        /\ held["imu_task"] = {"i2c", "delay"}
        /\ held["network_task"] \cap Transports /= {}
        /\ \A u \in used : u[2] \in held[u[1]]

\* C10 (step part): a quat() cycle advances the marker by the elapsed amount it
\* measured, and no step decreases the marker.
C10_MarkerStep ==
    /\ last' >= last
    /\ (quatCalls' /= quatCalls /\ proc' = "Running" /\ driver = "mpu6050") =>
           /\ last' = last + (now - last)
           /\ elapsedSum' = elapsedSum + (now - last)

\* C10: after n successful quat() cycles of the Mpu6050 driver the last-sample
\* marker equals its value at construction plus the sum of the n measured
\* elapsed amounts; each cycle adds exactly its own amount and the marker never
\* decreases.
C10_MarkerAdditive ==
    /\ [](driver = "mpu6050" => (last = last0 + elapsedSum /\ last >= last0))
    /\ [][C10_MarkerStep]_vars

\* two cycles whose elapsed amounts add up to more than one tick, after a
\* construction at a time other than the clock's start
C10_Witness ==
    /\ driver = "mpu6050"
    /\ quatCalls >= 2
    /\ last0 >= 1
    /\ elapsedSum >= 1
    /\ last = last0 + elapsedSum
    /\ proc = "Running"

\* C11: when the at-rest calibration fails during Mpu6050 construction the
\* result is ignored: construction returns the driver, the sensor task enters
\* its loop, and the quat() calls that follow still return samples.
C11_CalibrationBestEffort ==
    (driver = "mpu6050" /\ newInputs.config = "Ok" /\ newInputs.calibration = "Err") =>
        /\ imuPc = "loop"
        /\ ~calibrated
        /\ panicCause /= "mpu_init"
        /\ (quatCalls > 0 /\ busAtCall = "Ok") =>
               (quatResult.kind = "Ok" /\ nextSeq["imu_task"] = quatCalls)

\* an uncalibrated driver has produced a sample
C11_Witness ==
    /\ driver = "mpu6050"
    /\ newInputs.calibration = "Err"
    /\ imuPc = "loop"
    /\ quatCalls >= 1
    /\ quatResult.kind = "Ok"

\* C12 (state part): after a failed register configuration in Mpu6050
\* construction the process is halted, no driver exists, quat() has never been
\* called and the sensor task has created no packet.
C12_NoDriver ==
    (driver = "mpu6050" /\ newInputs.config = "Err") =>
        /\ proc = "Halted"
        /\ panicCause = "mpu_init"
        /\ imuPc = "new"
        /\ quatCalls = 0
        /\ nextSeq["imu_task"] = 0
        /\ pending["imu_task"] = NoPacket
        /\ \A n \in 1..Len(queue) : queue[n].producer /= "imu_task"

\* C12: a failed sensor initialisation is fatal: no driver instance is produced
\* and nothing operates afterwards, in particular no packet is enqueued.
C12_InitFailureFatal ==
    /\ []C12_NoDriver
    /\ [][panicCause = "mpu_init" => UNCHANGED <<storeVars, imuVars, polled>>]_vars

\* the configuration failed while the other tasks were already at work
C12_Witness ==
    /\ newInputs.config = "Err"
    /\ proc = "Halted"
    /\ nextSeq["protocol_task"] >= 1

\* squared norm of a quaternion
NormSq(q) == q.w * q.w + q.i * q.i + q.j * q.j + q.k * q.k

\* a unit quaternion: no component is NaN and the norm is 1
IsUnitQuat(q) == ~IsNaNQuat(q) /\ NormSq(q) = 1

MaxCoord == 1

\* ----------------------------------------------------------------- vectors
\* A vector is a triple of integers.  Where a unit vector is meant, the triple
\* stands for its normalisation: normalising keeps the direction.
Zero3 == <<0, 0, 0>>
XAxis == <<1, 0, 0>>
YAxis == <<0, 1, 0>>
ZAxis == <<0, 0, 1>>
Neg3(v) == <<0 - v[1], 0 - v[2], 0 - v[3]>>
Dot3(a, b) == a[1] * b[1] + a[2] * b[2] + a[3] * b[3]
Cross3(a, b) ==
    <<a[2] * b[3] - a[3] * b[2], a[3] * b[1] - a[1] * b[3], a[1] * b[2] - a[2] * b[1]>>

\* up_vec(), forward_vec(), right_vec()
UpVec == YAxis
ForwardVec == Neg3(ZAxis)
RightVec == XAxis

\* ------------------------------------------------------------- quaternions
\* A unit quaternion is held as an integer quaternion Q standing for Q / |Q|.
Quat(w, i, j, k) == [w |-> w, i |-> i, j |-> j, k |-> k]
QConj(q) == Quat(q.w, 0 - q.i, 0 - q.j, 0 - q.k)
\* Hamilton product
QMul(a, b) ==
    Quat(a.w * b.w - a.i * b.i - a.j * b.j - a.k * b.k,
         a.w * b.i + a.i * b.w + a.j * b.k - a.k * b.j,
         a.w * b.j - a.i * b.k + a.j * b.w + a.k * b.i,
         a.w * b.k + a.i * b.j - a.j * b.i + a.k * b.w)

\* q * v for a unit quaternion Q / |Q|: the vector part of Q (0, v) Q*, which is
\* |Q|^2 times the rotated vector
RotateNum(q, v) ==
    LET r == QMul(QMul(q, Quat(0, v[1], v[2], v[3])), QConj(q))
    IN <<r.i, r.j, r.k>>

\* cos and sin of a * pi/4, the half of a quarter turns; for odd a both are
\* scaled by sqrt(2), which the normalisation of the quaternion undoes
HalfCos(a) ==
    CASE a % 8 \in {0, 1, 7} -> 1 [] a % 8 \in {3, 4, 5} -> -1 [] OTHER -> 0
HalfSin(a) ==
    CASE a % 8 \in {1, 2, 3} -> 1 [] a % 8 \in {5, 6, 7} -> -1 [] OTHER -> 0

\* UnitQuat::from_axis_angle(axis, angle), angle given in quarter turns
FromAxisAngle(axis, a) ==
    Quat(HalfCos(a), axis[1] * HalfSin(a), axis[2] * HalfSin(a), axis[3] * HalfSin(a))

\* UnitQuat::from_euler_angles(roll, pitch, yaw), angles given in quarter turns
FromEulerQuarterTurns(roll, pitch, yaw) ==
    LET sr == HalfSin(roll)  cr == HalfCos(roll)
        sp == HalfSin(pitch) cp == HalfCos(pitch)
        sy == HalfSin(yaw)   cy == HalfCos(yaw)
    IN Quat(cr * cp * cy + sr * sp * sy,
            sr * cp * cy - cr * sp * sy,
            cr * sp * cy + sr * cp * sy,
            cr * cp * sy - sr * sp * cy)

\* --------------------------------------------------------------- rotations
\* A rotation is held as the three columns of its matrix, that is, the images
\* of the X, Y and Z axes.  A component is a pair [n, d] standing for
\* n / sqrt(d); d = 0 stands for a NaN.
Surd(n, d) == [n |-> n, d |-> d]

\* v.normalize()
Normalized(v) ==
    LET d == Dot3(v, v)
    IN <<Surd(v[1], d), Surd(v[2], d), Surd(v[3], d)>>

\* two components are the same number
SameNumber(a, b) ==
    /\ a.d > 0 /\ b.d > 0
    /\ (a.n > 0 /\ b.n > 0) \/ (a.n < 0 /\ b.n < 0) \/ (a.n = 0 /\ b.n = 0)
    /\ a.n * a.n * b.d = b.n * b.n * a.d

\* two unit vectors are the same vector
SameVector(u, v) == \A n \in 1..3 : SameNumber(u[n], v[n])

\* the rotation of the unit quaternion q / |q|: the images q * axis
ToRotation(q) ==
    LET d == NormSq(q) * NormSq(q)
        col(v) == LET r == RotateNum(q, v)
                  IN <<Surd(r[1], d), Surd(r[2], d), Surd(r[3], d)>>
    IN <<col(XAxis), col(YAxis), col(ZAxis)>>

\* a NaN component, and the rotation of the quaternion whose components are
\* all NaN
NaN == Surd(0, 0)
IsNaN(c) == c.d = 0
NaNRotation == <<<<NaN, NaN, NaN>>, <<NaN, NaN, NaN>>, <<NaN, NaN, NaN>>>>

\* Rotation3::face_towards(dir, up): zaxis = dir.normalize(),
\* xaxis = up.cross(zaxis).normalize(), yaxis = zaxis.cross(xaxis)
Rotation3FaceTowards(dir, up) ==
    LET z == dir
        x == Cross3(up, z)
        y == Cross3(z, x)
    IN <<Normalized(x), Normalized(y), Normalized(z)>>

\* UnitQuat::from_rotation_matrix, the quaternion held as the rotation it
\* stands for: the rotation of the matrix.  Every component of the quaternion
\* is divided by a square root over the three diagonal entries, so a NaN on
\* the diagonal makes every component NaN.
FromRotationMatrix(R) ==
    IF \E c \in 1..3 : IsNaN(R[c][c]) THEN NaNRotation ELSE R

\* UnitQuat::face_towards(dir, up)
FaceTowards(dir, up) == FromRotationMatrix(Rotation3FaceTowards(dir, up))

\* UnitQuat::inverse(): the transposed matrix
Inverse(R) ==
    <<<<R[1][1], R[2][1], R[3][1]>>,
      <<R[1][2], R[2][2], R[3][2]>>,
      <<R[1][3], R[2][3], R[3][3]>>>>

\* a slip in look_at_rh: the rotation is not inverted
LookAtRh_NoInverse(dir, up) == FaceTowards(Neg3(dir), up)

\* UnitQuat::look_at_rh(dir, up) = face_towards(-dir, up).inverse()
LookAtRh(dir, up) == Inverse(FaceTowards(Neg3(dir), up))

\* a slip in look_towards: the direction is not negated
LookTowards_NoNegation(dir, up) == FaceTowards(dir, up)

\* look_towards(dir, up) = UnitQuat::face_towards(&-dir, up)
LookTowards(dir, up) == FaceTowards(Neg3(dir), up)

\* the debug_assert of look_towards: dir x up is not the zero vector
NotCollinear(dir, up) == Cross3(dir, up) /= Zero3

\* R * v for v one of the signed coordinate axes: the signed column of R
RotateAxis(R, v) ==
    LET c == CHOOSE n \in 1..3 : v[n] /= 0
    IN <<Surd(v[c] * R[c][1].n, R[c][1].d),
         Surd(v[c] * R[c][2].n, R[c][2].d),
         Surd(v[c] * R[c][3].n, R[c][3].d)>>

\* the six rotations of check_rotation_builders, by the arguments of each builder
RotationCases ==
    <<[desc |-> "Pitch up 90 degrees",
       look_towards |-> <<UpVec, Neg3(ForwardVec)>>,
       look_at      |-> <<Neg3(YAxis), Neg3(ZAxis)>>,
       face_towards |-> <<Neg3(YAxis), ZAxis>>,
       axis_angle   |-> <<XAxis, 1>>,
       euler        |-> <<1, 0, 0>>],
      [desc |-> "Pitch down 90 degrees",
       look_towards |-> <<Neg3(UpVec), ForwardVec>>,
       look_at      |-> <<YAxis, ZAxis>>,
       face_towards |-> <<YAxis, Neg3(ZAxis)>>,
       axis_angle   |-> <<XAxis, -1>>,
       euler        |-> <<-1, 0, 0>>],
      [desc |-> "Yaw right 90 degrees",
       look_towards |-> <<RightVec, UpVec>>,
       look_at      |-> <<Neg3(XAxis), YAxis>>,
       face_towards |-> <<Neg3(XAxis), YAxis>>,
       axis_angle   |-> <<YAxis, -1>>,
       euler        |-> <<0, -1, 0>>],
      [desc |-> "Yaw left 90 degrees",
       look_towards |-> <<Neg3(RightVec), UpVec>>,
       look_at      |-> <<XAxis, YAxis>>,
       face_towards |-> <<XAxis, YAxis>>,
       axis_angle   |-> <<YAxis, 1>>,
       euler        |-> <<0, 1, 0>>],
      [desc |-> "Roll clockwise 90 degrees",
       look_towards |-> <<ForwardVec, RightVec>>,
       look_at      |-> <<Neg3(ZAxis), Neg3(XAxis)>>,
       face_towards |-> <<ZAxis, XAxis>>,
       axis_angle   |-> <<ZAxis, -1>>,
       euler        |-> <<0, 0, -1>>],
      [desc |-> "Roll counter-clockwise 90 degrees",
       look_towards |-> <<ForwardVec, Neg3(RightVec)>>,
       look_at      |-> <<Neg3(ZAxis), XAxis>>,
       face_towards |-> <<ZAxis, Neg3(XAxis)>>,
       axis_angle   |-> <<ZAxis, 1>>,
       euler        |-> <<0, 0, 1>>]>>

\* the five rotations built for one case
BuildRotations(c) ==
    [look_towards |-> LookTowards(c.look_towards[1], c.look_towards[2]),
     look_at      |-> LookAtRh(c.look_at[1], c.look_at[2]),
     face_towards |-> FaceTowards(c.face_towards[1], c.face_towards[2]),
     axis_angle   |-> ToRotation(FromAxisAngle(c.axis_angle[1], c.axis_angle[2])),
     euler        |-> ToRotation(FromEulerQuarterTurns(c.euler[1], c.euler[2], c.euler[3]))]

\* look_towards(dir, up) applied to forward_vec(); with collinear arguments a
\* debug build panics in the debug_assert and a release build normalises a zero
\* vector
LookTowardsForward(dir, up, debug) ==
    LET R == LookTowards(dir, up)
    IN IF NotCollinear(dir, up)
       THEN [outcome |-> "rotation", rotation |-> R, image |-> RotateAxis(R, ForwardVec)]
       ELSE IF debug
       THEN [outcome |-> "panic", rotation |-> <<>>, image |-> <<>>]
       ELSE [outcome |-> "nan", rotation |-> R, image |-> RotateAxis(R, ForwardVec)]

\* ------------------------------------------------------------ specification
Coords == (0 - MaxCoord)..MaxCoord
Vectors == Coords \X Coords \X Coords

CvInputs ==
    {[test |-> "builders", case |-> n, dir |-> Zero3, up |-> Zero3, debug |-> FALSE] :
         n \in 1..Len(RotationCases)}
    \cup {[test |-> "look", case |-> 0, dir |-> d, up |-> u, debug |-> b] :
              d \in Vectors, u \in Vectors, b \in BOOLEAN}

\* the firmware is left at one reset state
FwIdle == FwInit /\ driver = "stub" /\ ~bbq

CvInit ==
    /\ cvPc = "input"
    /\ cvIn \in CvInputs
    /\ cvOut = <<>>
    /\ FwIdle
    /\ OvIdle

\* tests::check_rotation_builders: build the five rotations of one case
CheckRotationBuilders ==
    /\ cvPc = "input"
    /\ cvIn.test = "builders"
    /\ cvOut' = BuildRotations(RotationCases[cvIn.case])
    /\ cvPc' = "done"
    /\ UNCHANGED <<cvIn, fwVars, ovVars>>

\* look_towards(&dir, &up) * forward_vec()
LookTowardsCall ==
    /\ cvPc = "input"
    /\ cvIn.test = "look"
    /\ cvOut' = LookTowardsForward(cvIn.dir, cvIn.up, cvIn.debug)
    /\ cvPc' = "done"
    /\ UNCHANGED <<cvIn, fwVars, ovVars>>

CvNext == CheckRotationBuilders \/ LookTowardsCall

ConvSpec == CvInit /\ [][CvNext]_vars

\* ----------------------------------------------------------------- claims
\* two rotations send axis v to the same image
SameImage(a, b, v) == SameVector(RotateAxis(a, v), RotateAxis(b, v))

\* the angle between two rotations is zero: a^-1 b is the identity, that is,
\* the inverses agree on every axis as well
AngleZero(a, b) ==
    \A v \in {XAxis, YAxis, ZAxis} : SameVector(RotateAxis(Inverse(a), v), RotateAxis(Inverse(b), v))

Builders == {"look_towards", "look_at", "face_towards", "axis_angle", "euler"}

\* C13: for each of the six cardinal 90-degree rotations, look_towards,
\* look_at_rh, face_towards and from_euler_angles build the rotation that
\* from_axis_angle builds: each sends the X, Y and Z axes to the images the
\* axis-angle rotation sends them to, and the angle to it is zero.
C13_BuildersAgree ==
    (cvPc = "done" /\ cvIn.test = "builders") =>
        \A b \in Builders :
            /\ \A v \in {XAxis, YAxis, ZAxis} : SameImage(cvOut.axis_angle, cvOut[b], v)
            /\ AngleZero(cvOut.axis_angle, cvOut[b])

\* the last case has been built: the axis-angle rotation and look_towards both
\* turn X onto Y
C13_Witness ==
    /\ cvPc = "done"
    /\ cvIn.test = "builders"
    /\ cvIn.case = 6
    /\ SameVector(RotateAxis(cvOut.axis_angle, XAxis), Normalized(YAxis))
    /\ SameVector(RotateAxis(cvOut.look_towards, XAxis), Normalized(YAxis))

\* the numerators of a column, and the squared denominator its components share
Nums(col) == <<col[1].n, col[2].n, col[3].n>>
IsUnitColumn(col) ==
    /\ col[1].d = col[2].d /\ col[2].d = col[3].d
    /\ Dot3(Nums(col), Nums(col)) = col[1].d
    /\ col[1].d > 0

\* the columns are unit vectors, pairwise orthogonal and right-handed
IsRotation(R) ==
    /\ \A c \in 1..3 : IsUnitColumn(R[c])
    /\ Dot3(Nums(R[1]), Nums(R[2])) = 0
    /\ Dot3(Nums(R[2]), Nums(R[3])) = 0
    /\ Dot3(Nums(R[1]), Nums(R[3])) = 0
    /\ SameVector(Normalized(Cross3(Nums(R[1]), Nums(R[2]))), R[3])

\* C14: for a non-zero dir and an up not collinear with it, look_towards(dir, up)
\* is a rotation that takes forward_vec() (the -Z axis) onto dir normalised,
\* whatever the length of dir.
C14_ForwardOntoDir ==
    (cvPc = "done" /\ cvIn.test = "look"
        /\ cvIn.dir /= Zero3 /\ NotCollinear(cvIn.dir, cvIn.up)) =>
        /\ cvOut.outcome = "rotation"
        /\ IsRotation(cvOut.rotation)
        /\ SameVector(cvOut.image, Normalized(cvIn.dir))

\* a direction that is not a coordinate axis and not of length one
C14_Witness ==
    /\ cvPc = "done"
    /\ cvIn.test = "look"
    /\ cvIn.dir = <<1, -1, 1>>
    /\ cvIn.up = UpVec
    /\ cvOut.outcome = "rotation"
    /\ SameVector(cvOut.image, <<Surd(1, 3), Surd(-1, 3), Surd(1, 3)>>)

\* ================================================================= overlay
\* get_display_settings: the last message that parses as display settings wins
RECURSIVE LastSettings(_, _)
LastSettings(msgs, result) ==
    IF msgs = <<>> THEN result
    ELSE LastSettings(Tail(msgs), IF Head(msgs) = "skipped" THEN result ELSE Head(msgs))

GetDisplaySettings(ps) ==
    IF ~ps.present THEN "none" ELSE LastSettings(ps.msgs, "none")

\* a slip in the receiver: changed() resolves without a new version
ChangedReady_Always(ver, seen) == TRUE

\* Receiver::changed() resolves with Ok when the channel's version is not the
\* one the receiver has seen
ChangedReady(ver, seen) == ver /= seen

\* a slip in the loop: an update without a bones list is handled as one with
\* an empty list
Continues_BonesOptional(u) == u.feed \in {"no_msgs", "other_msg"}

\* unwrap_or_continue!: the loop continues on an update without a message
\* list, whose first message is not a data-feed update, or without a bones list
Continues(u) == u.feed \in {"no_msgs", "other_msg", "no_bones"}

\* the bones filter_map keeps: a body part with a BoneKind, a position and a
\* rotation
Kept(b) == BoneKindOf(b.part) /= "none" /\ b.pos /\ b.rot
KeptKinds(bones) == {BoneKindOf(bones[n].part) : n \in {m \in 1..Len(bones) : Kept(bones[m])}}

\* a slip in the loop: the display settings are not consulted
HiddenBones_IgnoreSettings(bones, visible) == BoneKinds \ KeptKinds(bones)

\* hidden_bones after the filter_map: every kind, less the kept ones when the
\* skeleton is visible
HiddenBones(bones, visible) ==
    IF visible THEN BoneKinds \ KeptKinds(bones) ELSE BoneKinds

\* the loop body on update u after the borrow
HandleUpdate(u, visible, skel) ==
    IF u.feed = "None" \/ u.feed = "empty_msgs"
    THEN [outcome |-> "panic", skeleton |-> skel]
    ELSE IF Continues(u)
    THEN [outcome |-> "continue", skeleton |-> skel]
    ELSE LET kept == KeptKinds(u.bones)
             hidden == HiddenBones(u.bones, visible)
             posed(k) == IF k \in kept THEN u.id ELSE skel[k].iso
         IN [outcome |-> "applied",
             skeleton |->
                 [k \in BoneKinds |->
                     [iso |-> posed(k),
                      length |-> IF k \in kept THEN u.id ELSE skel[k].length,
                      visible |-> k \notin hidden,
                      rendered |-> [iso |-> posed(k), visible |-> k \notin hidden]]]]

\* a slip in the overlay: the context is shut down on every way out of the select
OverlayReturn_AlwaysShutdown(r) ==
    [exit |-> IF r = "Ok" THEN "exited_ok" ELSE "exited_err", shutdown |-> TRUE]

\* what follows the select: `?` returns an error at once, otherwise
\* context.shutdown() runs and the overlay returns Ok
OverlayReturn(r) ==
    IF r = "Ok" THEN [exit |-> "exited_ok", shutdown |-> TRUE]
    ELSE [exit |-> "exited_err", shutdown |-> FALSE]

\* ---------------------------------------------------------------- networking
\* networking: create both channels and start the overlay subsystem
NetworkingStart ==
    /\ netPc = "unstarted"
    /\ netPc' = "running"
    /\ ovPc' = "init"
    /\ \E v \in BOOLEAN : settingsVal' = Settings(v, 0)
    /\ UNCHANGED <<fwVars, cvVars, shutdownRequested, cbPc, cbUpdate, received,
                   carriedSettings, dataVal, dataVer, seenVer, isSkeletonVisible, skeleton,
                   context, shutdownCalls>>

\* catch_signals: Ctrl-C asks for shutdown
CtrlC ==
    /\ netPc /= "unstarted"
    /\ ~shutdownRequested
    /\ shutdownRequested' = TRUE
    /\ UNCHANGED <<fwVars, cvVars, netVars, chanVars, loopVars>>

\* the callback is called with an update, parses its display settings and, when
\* there are some, publishes them: settings_sender.send_replace(ds)
NetReceive ==
    /\ netPc = "running"
    /\ cbPc = "idle"
    /\ received < MaxUpdates
    /\ \E d \in DataFeeds, ps \in PubSubs :
           LET id == received + 1
               ds == GetDisplaySettings(ps)
           IN /\ received' = id
              /\ cbUpdate' = SomeUpdate(id, d)
              /\ settingsVal' = IF ds = "none" THEN settingsVal ELSE Settings(ds = "show", id)
              /\ carriedSettings' = IF ds = "none" THEN carriedSettings
                                    ELSE carriedSettings \cup {id}
              /\ cbPc' = "data"
    /\ UNCHANGED <<fwVars, cvVars, shutdownRequested, netPc, dataVal, dataVer, seenVer,
                   loopVars>>

\* data_sender.send_replace(Some(update))
NetSendData ==
    /\ netPc = "running"
    /\ cbPc = "data"
    /\ dataVal' = cbUpdate
    /\ dataVer' = dataVer + 1
    /\ cbPc' = "idle"
    /\ cbUpdate' = NoUpdate
    /\ UNCHANGED <<fwVars, cvVars, shutdownRequested, netPc, received, carriedSettings,
                   seenVer, settingsVal, loopVars>>

\* networking's select takes the shutdown branch; both senders are dropped
NetShutdown ==
    /\ netPc = "running"
    /\ cbPc = "idle"
    /\ shutdownRequested
    /\ netPc' = "exited"
    /\ UNCHANGED <<fwVars, cvVars, shutdownRequested, cbPc, cbUpdate, received,
                   carriedSettings, chanVars, loopVars>>

\* ------------------------------------------------------------------- overlay
\* the overlay returns an error or panics before or from its loop: the
\* toplevel asks for shutdown
OverlayFails(exit) ==
    /\ ovPc' = exit
    /\ shutdownRequested' = TRUE

\* ovr::Context::init()
ContextInit ==
    /\ ovPc = "init"
    /\ \E ok \in BOOLEAN :
           IF ok
           THEN /\ context' = "live"
                /\ ovPc' = "build"
                /\ UNCHANGED shutdownRequested
           ELSE /\ OverlayFails("exited_err")
                /\ UNCHANGED context
    /\ UNCHANGED <<fwVars, cvVars, netVars, chanVars, isSkeletonVisible, skeleton,
                   shutdownCalls>>

\* SkeletonBuilder::default().build(mngr)
BuildSkeleton ==
    /\ ovPc = "build"
    /\ \E ok \in BOOLEAN :
           IF ok
           THEN ovPc' = "wait" /\ UNCHANGED shutdownRequested
           ELSE OverlayFails("exited_err")
    /\ UNCHANGED <<fwVars, cvVars, netVars, chanVars, isSkeletonVisible, skeleton,
                   context, shutdownCalls>>

\* recv.changed().await resolves with Ok
Changed ==
    /\ ovPc = "wait"
    /\ ChangedReady(dataVer, seenVer)
    /\ seenVer' = dataVer
    /\ ovPc' = "visible"
    /\ UNCHANGED <<fwVars, cvVars, shutdownRequested, netVars, dataVal, dataVer, settingsVal,
                   isSkeletonVisible, skeleton, context, shutdownCalls>>

\* recv.changed().await resolves with Err, the sender being dropped; the loop
\* ends with the error and the select's loop branch returns it
ChangedClosed ==
    /\ ovPc = "wait"
    /\ ~ChangedReady(dataVer, seenVer)
    /\ netPc = "exited"
    /\ LET ret == OverlayReturn("Err")
       IN /\ OverlayFails(ret.exit)
          /\ shutdownCalls' = IF ret.shutdown THEN shutdownCalls + 1 ELSE shutdownCalls
          /\ context' = IF ret.shutdown THEN "shut" ELSE context
    /\ UNCHANGED <<fwVars, cvVars, netVars, chanVars, isSkeletonVisible, skeleton>>

\* is_skeleton_visible = display_settings.borrow().is_visible
ReadVisible ==
    /\ ovPc = "visible"
    /\ isSkeletonVisible' = settingsVal
    /\ ovPc' = "borrow"
    /\ UNCHANGED <<fwVars, cvVars, shutdownRequested, netVars, chanVars, skeleton, context,
                   shutdownCalls>>

\* recv.borrow_and_update() and the rest of the loop body; is_skeleton_visible
\* goes out of scope with the iteration
Handle ==
    /\ ovPc = "borrow"
    /\ seenVer' = dataVer
    /\ LET h == HandleUpdate(dataVal, isSkeletonVisible.is_visible, skeleton)
       IN /\ skeleton' = h.skeleton
          /\ IF h.outcome = "panic"
             THEN OverlayFails("panicked")
             ELSE ovPc' = "wait" /\ UNCHANGED shutdownRequested
    /\ isSkeletonVisible' = NoSettings
    /\ UNCHANGED <<fwVars, cvVars, netVars, dataVal, dataVer, settingsVal, context,
                   shutdownCalls>>

\* the overlay's select takes the shutdown branch while the loop waits
ShutdownBranch ==
    /\ ovPc = "wait"
    /\ shutdownRequested
    /\ LET ret == OverlayReturn("Ok")
       IN /\ ovPc' = ret.exit
          /\ shutdownCalls' = IF ret.shutdown THEN shutdownCalls + 1 ELSE shutdownCalls
          /\ context' = IF ret.shutdown THEN "shut" ELSE context
    /\ UNCHANGED <<fwVars, cvVars, shutdownRequested, netVars, chanVars, isSkeletonVisible,
                   skeleton>>

OvInit == FwIdle /\ CvIdle /\ OvIdle

OvNext ==
    \/ NetworkingStart
    \/ CtrlC
    \/ NetReceive
    \/ NetSendData
    \/ NetShutdown
    \/ ContextInit
    \/ BuildSkeleton
    \/ Changed
    \/ ChangedClosed
    \/ ReadVisible
    \/ Handle
    \/ ShutdownBranch

OvSpec == OvInit /\ [][OvNext]_vars

\* ----------------------------------------------------------------- claims
\* the step of the loop body that borrows the update and handles it
HandleStep == ovPc = "borrow" /\ ovPc' /= "borrow"

\* the loop is back at recv.changed() having handled the channel's update
HandledCurrent == ovPc = "wait" /\ dataVer >= 1 /\ seenVer = dataVer

\* C16: whenever recv.changed() has resolved, the value the loop borrows from the
\* data channel is Some(update), never the initial None, so the unwrap of the
\* borrowed value cannot fail.
C16_BorrowIsSome ==
    (ovPc \in {"visible", "borrow"}) => (dataVal.feed /= "None" /\ dataVal.id >= 1)

\* the loop is about to borrow a second update, the first one handled
C16_Witness ==
    /\ ovPc = "borrow"
    /\ dataVal.id = 2
    /\ skeleton["Head"].iso = 1

\* C17: after the loop handles an update with a bones list, a bone kind is
\* visible exactly when the is_visible read for that update was true and the
\* list has a bone of that kind with a position and a rotation; every other
\* kind is hidden, whatever its visibility was.
C17_HandleStep ==
    (HandleStep /\ ovPc' = "wait" /\ dataVal.feed = "bones") =>
        \A k \in BoneKinds :
            skeleton'[k].visible <=>
                /\ isSkeletonVisible.is_visible
                /\ \E n \in 1..Len(dataVal.bones) :
                       /\ BoneKindOf(dataVal.bones[n].part) = k
                       /\ dataVal.bones[n].pos
                       /\ dataVal.bones[n].rot
C17_VisibleIffShownAndPresent == [][C17_HandleStep]_vars

\* the second update showed the chest and hid the head the first one had posed
C17_Witness ==
    /\ HandledCurrent
    /\ dataVal.id = 2
    /\ dataVal.feed = "bones"
    /\ skeleton["Chest"].visible
    /\ skeleton["Chest"].iso = 2
    /\ ~skeleton["Head"].visible
    /\ skeleton["Head"].iso = 1

\* C18: an update without a data-feed message list, or whose first message is
\* not a data-feed update, or whose data-feed update has no bones list, is
\* skipped: no bone's isometry, length, visibility or render state changes and
\* the loop waits for the next update.
C18_SkipStep ==
    (HandleStep /\ dataVal.feed \in {"no_msgs", "other_msg", "no_bones"}) =>
        (skeleton' = skeleton /\ ovPc' = "wait")
C18_SkippedUntouched == [][C18_SkipStep]_vars

\* an update without a bones list was skipped and the head is still shown
C18_Witness ==
    /\ HandledCurrent
    /\ dataVal.id = 2
    /\ dataVal.feed = "no_bones"
    /\ skeleton["Head"].visible
    /\ skeleton["Head"].iso = 1

\* the newest update up to id that display settings were parsed from (0: none)
NewestSettings(id) ==
    LET ids == {0} \cup {n \in carriedSettings : n <= id}
    IN CHOOSE n \in ids : \A m \in ids : m <= n

\* C19: the callback publishes the display settings parsed from an update
\* before it publishes the update, so whenever the loop handles an update the
\* is_visible it read is not older than the newest settings carried by that
\* update or an earlier one.
C19_PublishedFirst == dataVal.id >= 1 => settingsVal.from >= NewestSettings(dataVal.id)
C19_HandleStep == HandleStep => isSkeletonVisible.from >= NewestSettings(dataVal.id)
C19_SettingsNotOlder == []C19_PublishedFirst /\ [][C19_HandleStep]_vars

\* C20: the overlay shuts the OpenVR context down at most once and only after
\* its loop is no longer polled: context.shutdown() runs exactly when the
\* overlay leaves through the shutdown-request branch, and an overlay whose
\* loop ended with an error returns without calling it.
C20_Exits ==
    /\ shutdownCalls <= 1
    /\ shutdownCalls = 1 <=> ovPc = "exited_ok"
    /\ context = "shut" <=> shutdownCalls = 1
    /\ ovPc \in {"exited_err", "panicked"} => shutdownCalls = 0
C20_Step ==
    /\ shutdownCalls' /= shutdownCalls =>
           (ovPc = "wait" /\ shutdownRequested /\ ovPc' = "exited_ok")
    /\ (ovPc = "wait" /\ ovPc' = "exited_ok") => shutdownCalls' = shutdownCalls + 1
    /\ shutdownCalls = 1 => UNCHANGED <<loopVars, seenVer>>
C20_ShutdownOnlyOnRequest == []C20_Exits /\ [][C20_Step]_vars

\* the overlay left through the shutdown branch after the senders were dropped
\* and an update was handled
C20_Witness ==
    /\ ovPc = "exited_ok"
    /\ shutdownCalls = 1
    /\ netPc = "exited"
    /\ skeleton["Head"].iso >= 1

====
